---- MODULE Spec2Model ----
(***************************************************************************)
(* Value-producing expression core of elvish (eval/compile_value.go):      *)
(* output capture with its two drain goroutines, exception capture,        *)
(* compound evaluation (outerProduct / cat / doTilde), map literals and    *)
(* lambda evaluation.                                                      *)
(***************************************************************************)
EXTENDS Integers, Sequences, FiniteSets, TLC

VARIABLES
    \* ---- output capture (pcaptureOutput / pcaptureOutputInner) ----
    pc,             \* position of the capturing goroutine
    bodySt,         \* "idle" | "running" | "ok" | "failed": newEc.PEval(op)
    bodyErr,        \* the error PEval returned ("nil" when none)
    ch,             \* buffered contents of the typed value channel
    chClosed,       \* ch has been closed by ClosePorts
    pipe,           \* bytes written to pipeWrite and not yet read
    pipeWClosed,    \* pipeWrite has been closed by ClosePorts
    pipeRClosed,    \* pipeRead has been closed by the byte drain
    vs,             \* the shared result buffer
    mutex,          \* holder of m: "none" | "value" | "bytes"
    vpc, vcur,      \* valueCb: position, value taken from ch
    bpc, line, rdErr, \* bytesCb: position, line being read, ReadString hit EOF
    chCollected,    \* chCollected has been closed
    bytesCollected, \* bytesCollected has been closed
    emitted,        \* history: typed values the body sent, in order
    written,        \* history: bytes the body wrote, in order
    ret,            \* what pcaptureOutput returned, or NoRet
    \* ---- evaluation of one ValuesOp (compound, map literal, ?(...)) ----
    prog,           \* the compiled operation and what its sub-operations yield
    heap,           \* backing arrays of the Go slices (Segments, Buts)
    res,            \* what Invoke returned, or NoRes
    \* ---- lambda primaries and the closures they create ----
    lam,            \* the lambdaOp: option names and option-default operations
    cells,          \* the variable cells the default operations read
    closures,       \* the Closure values created so far
    calls           \* history: the calls made, with the option values seen

capVars == <<pc, bodySt, bodyErr, ch, chClosed, pipe, pipeWClosed, pipeRClosed,
             vs, mutex, vpc, vcur, bpc, line, rdErr, chCollected,
             bytesCollected, emitted, written, ret>>

evalVars == <<prog, heap, res>>
lamVars == <<lam, cells, closures, calls>>

vars == <<capVars, evalVars, lamVars>>

\* ------------------------------------------------------------------------
\* Bounds and program constants
\* ------------------------------------------------------------------------
outputCaptureBufferSize == 16

MaxVals == 3
MaxBytes == 3
PipeCap == 2
\* enough values to fill the channel and block the body
MaxValsLive == outputCaptureBufferSize + 1
MaxBytesLive == 1

NL == "\n"
Bytes == {"x", NL}
BodyErrors == {"e1", "e2"}
NoRet == [vs |-> <<>>, err |-> "none"]

\* ------------------------------------------------------------------------
\* Values
\* ------------------------------------------------------------------------
\* types.String built from a Go string (a sequence of bytes)
Str(s) == <<"string", s>>
\* the k-th typed value a body sends to its output channel
Val(k) == <<"val", k>>

\* strings.TrimSuffix(line, "\n")
TrimSuffix(s) ==
    IF Len(s) > 0 /\ s[Len(s)] = NL THEN SubSeq(s, 1, Len(s) - 1) ELSE s

\* ------------------------------------------------------------------------
\* pcaptureOutputInner: the capturing goroutine
\* ------------------------------------------------------------------------
\* fork, make(chan), os.Pipe, install the port, start both drains, enter PEval
CaptureStart ==
    /\ pc = "start"
    /\ \E pipeOk \in BOOLEAN :
        IF pipeOk
        THEN /\ pc' = "eval"
             /\ bodySt' = "running"
             /\ vpc' = "recv"
             /\ bpc' = "read"
             /\ ret' = ret
        ELSE /\ pc' = "done"
             /\ ret' = [vs |-> vs, err |-> "failed to create pipe"]
             /\ UNCHANGED <<bodySt, vpc, bpc>>
    /\ UNCHANGED <<evalVars, lamVars>>
    /\ UNCHANGED <<bodyErr, ch, chClosed, pipe, pipeWClosed, pipeRClosed, vs,
                   mutex, vcur, line, rdErr, chCollected, bytesCollected,
                   emitted, written>>

\* the body sends a typed value to newEc.ports[1].Chan (blocks when full)
BodySend(maxVals) ==
    /\ pc = "eval" /\ bodySt = "running"
    /\ Len(emitted) < maxVals
    /\ Len(ch) < outputCaptureBufferSize
    /\ ch' = Append(ch, Val(Len(emitted) + 1))
    /\ emitted' = Append(emitted, Val(Len(emitted) + 1))
    /\ UNCHANGED <<evalVars, lamVars>>
    /\ UNCHANGED <<pc, bodySt, bodyErr, chClosed, pipe, pipeWClosed,
                   pipeRClosed, vs, mutex, vpc, vcur, bpc, line, rdErr,
                   chCollected, bytesCollected, written, ret>>

\* the body writes a byte to newEc.ports[1].File (blocks when the pipe is full)
BodyWrite(maxBytes) ==
    /\ pc = "eval" /\ bodySt = "running"
    /\ Len(written) < maxBytes
    /\ Len(pipe) < PipeCap
    /\ \E b \in Bytes :
        /\ pipe' = Append(pipe, b)
        /\ written' = Append(written, b)
    /\ UNCHANGED <<evalVars, lamVars>>
    /\ UNCHANGED <<pc, bodySt, bodyErr, ch, chClosed, pipeWClosed, pipeRClosed,
                   vs, mutex, vpc, vcur, bpc, line, rdErr, chCollected,
                   bytesCollected, emitted, ret>>

\* err = newEc.PEval(op): the body finishes, with one of errs or without error
PEvalReturn(errs) ==
    /\ pc = "eval" /\ bodySt = "running"
    /\ \E e \in errs \cup {"nil"} :
        /\ bodyErr' = e
        /\ bodySt' = IF e = "nil" THEN "ok" ELSE "failed"
    /\ pc' = "close"
    /\ UNCHANGED <<evalVars, lamVars>>
    /\ UNCHANGED <<ch, chClosed, pipe, pipeWClosed, pipeRClosed, vs, mutex,
                   vpc, vcur, bpc, line, rdErr, chCollected, bytesCollected,
                   emitted, written, ret>>

\* ClosePorts(newEc.ports): the port was installed with CloseChan and
\* CloseFile both set, so the channel and the write end are closed
ClosePorts ==
    /\ pc = "close"
    /\ chClosed' = TRUE
    /\ pipeWClosed' = TRUE
    /\ pc' = "waitBytes"
    /\ UNCHANGED <<evalVars, lamVars>>
    /\ UNCHANGED <<bodySt, bodyErr, ch, pipe, pipeRClosed, vs, mutex, vpc,
                   vcur, bpc, line, rdErr, chCollected, bytesCollected,
                   emitted, written, ret>>

\* <-bytesCollected
WaitBytesCollected ==
    /\ pc = "waitBytes"
    /\ bytesCollected
    /\ pc' = "waitCh"
    /\ UNCHANGED <<evalVars, lamVars>>
    /\ UNCHANGED <<bodySt, bodyErr, ch, chClosed, pipe, pipeWClosed,
                   pipeRClosed, vs, mutex, vpc, vcur, bpc, line, rdErr,
                   chCollected, bytesCollected, emitted, written, ret>>

WaitChCollectedDropsErr ==
    /\ pc = "waitCh"
    /\ chCollected
    /\ ret' = [vs |-> vs, err |-> "nil"]
    /\ pc' = "done"
    /\ UNCHANGED <<evalVars, lamVars>>
    /\ UNCHANGED <<bodySt, bodyErr, ch, chClosed, pipe, pipeWClosed,
                   pipeRClosed, vs, mutex, vpc, vcur, bpc, line, rdErr,
                   chCollected, bytesCollected, emitted, written>>

\* <-chCollected; return err (pcaptureOutputInner); return vs, err
WaitChCollected ==
    /\ pc = "waitCh"
    /\ chCollected
    /\ ret' = [vs |-> vs, err |-> bodyErr]
    /\ pc' = "done"
    /\ UNCHANGED <<evalVars, lamVars>>
    /\ UNCHANGED <<bodySt, bodyErr, ch, chClosed, pipe, pipeWClosed,
                   pipeRClosed, vs, mutex, vpc, vcur, bpc, line, rdErr,
                   chCollected, bytesCollected, emitted, written>>

\* ------------------------------------------------------------------------
\* valueCb: for v := range ch { m.Lock(); vs = append(vs, v); m.Unlock() }
\* ------------------------------------------------------------------------
ValueRecv ==
    /\ vpc = "recv"
    /\ ch # <<>>
    /\ vcur' = Head(ch)
    /\ ch' = Tail(ch)
    /\ vpc' = "lock"
    /\ UNCHANGED <<evalVars, lamVars>>
    /\ UNCHANGED <<pc, bodySt, bodyErr, chClosed, pipe, pipeWClosed,
                   pipeRClosed, vs, mutex, bpc, line, rdErr, chCollected,
                   bytesCollected, emitted, written, ret>>

ValueEndForgetsSignal ==
    /\ vpc = "recv"
    /\ ch = <<>> /\ chClosed
    /\ vpc' = "done"
    /\ chCollected' = chCollected
    /\ UNCHANGED <<evalVars, lamVars>>
    /\ UNCHANGED <<pc, bodySt, bodyErr, ch, chClosed, pipe, pipeWClosed,
                   pipeRClosed, vs, mutex, vcur, bpc, line, rdErr,
                   bytesCollected, emitted, written, ret>>

\* the range loop ends on a closed, empty channel; close(chCollected)
ValueEnd ==
    /\ vpc = "recv"
    /\ ch = <<>> /\ chClosed
    /\ vpc' = "done"
    /\ chCollected' = TRUE
    /\ UNCHANGED <<evalVars, lamVars>>
    /\ UNCHANGED <<pc, bodySt, bodyErr, ch, chClosed, pipe, pipeWClosed,
                   pipeRClosed, vs, mutex, vcur, bpc, line, rdErr,
                   bytesCollected, emitted, written, ret>>

ValueLock ==
    /\ vpc = "lock"
    /\ mutex = "none"
    /\ mutex' = "value"
    /\ vpc' = "append"
    /\ UNCHANGED <<evalVars, lamVars>>
    /\ UNCHANGED <<pc, bodySt, bodyErr, ch, chClosed, pipe, pipeWClosed,
                   pipeRClosed, vs, vcur, bpc, line, rdErr, chCollected,
                   bytesCollected, emitted, written, ret>>

ValueAppendPrepends ==
    /\ vpc = "append"
    /\ vs' = <<vcur>> \o vs
    /\ mutex' = "none"
    /\ vpc' = "recv"
    /\ UNCHANGED <<evalVars, lamVars>>
    /\ UNCHANGED <<pc, bodySt, bodyErr, ch, chClosed, pipe, pipeWClosed,
                   pipeRClosed, vcur, bpc, line, rdErr, chCollected,
                   bytesCollected, emitted, written, ret>>

\* vs = append(vs, v); m.Unlock()
ValueAppend ==
    /\ vpc = "append"
    /\ vs' = Append(vs, vcur)
    /\ mutex' = "none"
    /\ vpc' = "recv"
    /\ UNCHANGED <<evalVars, lamVars>>
    /\ UNCHANGED <<pc, bodySt, bodyErr, ch, chClosed, pipe, pipeWClosed,
                   pipeRClosed, vcur, bpc, line, rdErr, chCollected,
                   bytesCollected, emitted, written, ret>>

\* ------------------------------------------------------------------------
\* bytesCb: the ReadString loop over the pipe
\* ------------------------------------------------------------------------
AfterReadDropsFragment(l, eof) ==
    IF l # <<>> /\ ~eof THEN "lock" ELSE IF eof THEN "close" ELSE "read"

\* After ReadString returned (line, err): `if line != ""` goes for the lock,
\* otherwise straight to the `if err != nil` test.
AfterRead(l, eof) ==
    IF l # <<>> THEN "lock" ELSE IF eof THEN "close" ELSE "read"

\* buffered.ReadString('\n'): consumes bytes up to and including the
\* delimiter; at end-of-stream returns what it has read together with io.EOF
BytesRead ==
    /\ bpc = "read"
    /\ \/ /\ pipe # <<>>
          /\ pipe' = Tail(pipe)
          /\ line' = Append(line, Head(pipe))
          /\ rdErr' = FALSE
          /\ bpc' = IF Head(pipe) = NL
                    THEN AfterRead(Append(line, Head(pipe)), FALSE)
                    ELSE "read"
       \/ /\ pipe = <<>> /\ pipeWClosed
          /\ rdErr' = TRUE
          /\ bpc' = AfterRead(line, TRUE)
          /\ UNCHANGED <<pipe, line>>
    /\ UNCHANGED <<evalVars, lamVars>>
    /\ UNCHANGED <<pc, bodySt, bodyErr, ch, chClosed, pipeWClosed, pipeRClosed,
                   vs, mutex, vpc, vcur, chCollected, bytesCollected, emitted,
                   written, ret>>

BytesLock ==
    /\ bpc = "lock"
    /\ mutex = "none"
    /\ mutex' = "bytes"
    /\ bpc' = "append"
    /\ UNCHANGED <<evalVars, lamVars>>
    /\ UNCHANGED <<pc, bodySt, bodyErr, ch, chClosed, pipe, pipeWClosed,
                   pipeRClosed, vs, vpc, vcur, line, rdErr, chCollected,
                   bytesCollected, emitted, written, ret>>

\* v := types.String(strings.TrimSuffix(line, "\n")); vs = append(vs, v);
\* m.Unlock(); then break on err != nil, else read the next line
BytesAppend ==
    /\ bpc = "append"
    /\ vs' = Append(vs, Str(TrimSuffix(line)))
    /\ mutex' = "none"
    /\ line' = <<>>
    /\ bpc' = IF rdErr THEN "close" ELSE "read"
    /\ UNCHANGED <<evalVars, lamVars>>
    /\ UNCHANGED <<pc, bodySt, bodyErr, ch, chClosed, pipe, pipeWClosed,
                   pipeRClosed, vpc, vcur, rdErr, chCollected, bytesCollected,
                   emitted, written, ret>>

\* pipeRead.Close(); close(bytesCollected)
BytesClose ==
    /\ bpc = "close"
    /\ pipeRClosed' = TRUE
    /\ bytesCollected' = TRUE
    /\ bpc' = "done"
    /\ UNCHANGED <<evalVars, lamVars>>
    /\ UNCHANGED <<pc, bodySt, bodyErr, ch, chClosed, pipe, pipeWClosed, vs,
                   mutex, vpc, vcur, line, rdErr, chCollected, emitted,
                   written, ret>>

\* ------------------------------------------------------------------------
\* Values, errors and Go slices
\* ------------------------------------------------------------------------
Nil == <<"nil">>
\* fmt.Errorf("unsupported concat: %s and %s", lhs.Kind(), rhs.Kind())
ErrUnsupportedConcat(k1, k2) == <<"unsupported concat", k1, k2>>
ErrBadGlobPattern == <<"bad GlobPattern; elvish bug">>
ErrCannotDetermineUsername == <<"cannot determine user name from glob pattern">>
\* fmt.Errorf("tilde doesn't work on value of type %s", v.Kind())
ErrTildeKind(k) == <<"tilde doesn't work on value of type", k>>
ErrNoSuchUser == <<"cannot get home directory">>
\* an error returned by a sub-operation's Exec
ErrSubop == <<"subop failed">>

Kind(v) == v[1]

\* F applied to the value of v, with v evaluated once
Bind(v, F(_)) == CHOOSE y \in {F(x) : x \in {v}} : TRUE
BoolTrue == <<"bool", TRUE>>
OK == <<"ok">>

\* a slice header; the backing array is heap[arr], of length cap
NilSlice == [arr |-> 0, len |-> 0, cap |-> 0]
SliceElems(h, s) == IF s.len = 0 THEN <<>> ELSE SubSeq(h[s.arr], 1, s.len)
Zeros(n, z) == [k \in 1..n |-> z]
ZeroSegment == <<"nil">>
ZeroString == <<>>

\* a slice literal: a fresh backing array exactly as long as its elements
MakeSlice(h, elems) ==
    IF elems = <<>> THEN [heap |-> h, slice |-> NilSlice]
    ELSE [heap |-> Append(h, elems),
          slice |-> [arr |-> Len(h) + 1, len |-> Len(elems), cap |-> Len(elems)]]

\* capacity the Go runtime gives a grown slice of 16-byte elements
GrowCap(old, need) == IF need > 2 * old THEN need ELSE 2 * old

\* the Go builtin append(s, elems...): writes into the backing array when the
\* capacity allows, otherwise copies into a larger fresh array
GoAppend(h, s, elems, z) ==
    IF elems = <<>> THEN [heap |-> h, slice |-> s]
    ELSE LET need == s.len + Len(elems) IN
         IF need <= s.cap
         THEN [heap |-> [h EXCEPT ![s.arr] =
                            [k \in 1..s.cap |->
                                IF k > s.len /\ k <= need
                                THEN elems[k - s.len] ELSE @[k]]],
               slice |-> [s EXCEPT !.len = need]]
         ELSE LET c == GrowCap(s.cap, need) IN
              [heap |-> Append(h, SliceElems(h, s) \o elems
                                      \o Zeros(c - need, z)),
               slice |-> [arr |-> Len(h) + 1, len |-> need, cap |-> c]]

\* GlobPattern{glob.Pattern{Segments, DirOverride}, Flags, Buts}
Glob(segs, dir, flags, buts) ==
    <<"glob-pattern",
      [Segments |-> segs, DirOverride |-> dir, Flags |-> flags, Buts |-> buts]>>

Literal(data) == <<"Literal", data>>
Slash == <<"Slash">>
Wild == <<"Wild">>

\* stringToSegments(s): the string as a literal segment, in a fresh slice
stringToSegments(h, s) == MakeSlice(h, <<Literal(s)>>)

\* (gp *GlobPattern).append(segs...): the pattern's segments followed by segs,
\* in a fresh copy of the segment sequence
GlobPatternAppend(h, gp, segs) ==
    Bind(MakeSlice(h, SliceElems(h, gp.Segments) \o segs), LAMBDA r :
        [heap |-> r.heap, gp |-> [gp EXCEPT !.Segments = r.slice]])

\* ------------------------------------------------------------------------
\* cat and outerProduct
\* ------------------------------------------------------------------------
\* cat with a GlobPattern on either side, and the unsupported pairs
catPattern(h, lhs, rhs) ==
    IF Kind(lhs) = "string" /\ Kind(rhs) = "glob-pattern"
    THEN \* segs := stringToSegments(string(lhs))
         \* We know rhs contains exactly one segment.
         \* segs = append(segs, rhs.Segments[0])
         Bind(stringToSegments(h, lhs[2]), LAMBDA s1 :
         Bind(GoAppend(s1.heap, s1.slice, <<h[rhs[2].Segments.arr][1]>>,
                       ZeroSegment), LAMBDA s2 :
             [heap |-> s2.heap,
              val |-> Glob(s2.slice, <<>>, rhs[2].Flags, rhs[2].Buts),
              err |-> Nil]))
    ELSE IF Kind(lhs) = "glob-pattern" /\ Kind(rhs) = "string"
    THEN \* lhs.append(stringToSegments(string(rhs))...)
         Bind(stringToSegments(h, rhs[2]), LAMBDA s1 :
         Bind(GlobPatternAppend(s1.heap, lhs[2],
                                SliceElems(s1.heap, s1.slice)), LAMBDA a :
             [heap |-> a.heap, val |-> <<"glob-pattern", a.gp>>,
              err |-> Nil]))
    ELSE IF Kind(lhs) = "glob-pattern" /\ Kind(rhs) = "glob-pattern"
    THEN \* lhs.append(rhs.Segments[0]); lhs.Flags |= rhs.Flags
         \* lhs.Buts = append(lhs.Buts, rhs.Buts...)
         Bind(GlobPatternAppend(h, lhs[2], <<h[rhs[2].Segments.arr][1]>>),
              LAMBDA a :
         Bind(GoAppend(a.heap, a.gp.Buts, SliceElems(a.heap, rhs[2].Buts),
                       ZeroString), LAMBDA b :
             [heap |-> b.heap,
              val |-> <<"glob-pattern",
                        [a.gp EXCEPT !.Flags = @ \cup rhs[2].Flags,
                                     !.Buts = b.slice]>>,
              err |-> Nil]))
    ELSE [heap |-> h, val |-> Nil,
          err |-> ErrUnsupportedConcat(Kind(lhs), Kind(rhs))]

catSwapsStrings(h, lhs, rhs) ==
    IF Kind(lhs) = "string" /\ Kind(rhs) = "string"
    THEN [heap |-> h, val |-> Str(rhs[2] \o lhs[2]), err |-> Nil]
    ELSE catPattern(h, lhs, rhs)

\* cat(lhs, rhs): string+string, string+pattern, pattern+string and
\* pattern+pattern; anything else is "unsupported concat"
cat(h, lhs, rhs) ==
    IF Kind(lhs) = "string" /\ Kind(rhs) = "string"
    THEN [heap |-> h, val |-> Str(lhs[2] \o rhs[2]), err |-> Nil]
    ELSE catPattern(h, lhs, rhs)

RECURSIVE outerProductRow(_, _, _, _, _, _)
\* the inner loop for row i (0-based) from column j (0-based) on:
\* for j, u := range us { ws[i*len(us)+j], err = f(v, u) }
outerProductRow(h, v, us, i, j, ws) ==
    IF j >= Len(us) THEN [heap |-> h, vs |-> ws, err |-> Nil]
    ELSE Bind(cat(h, v, us[j + 1]), LAMBDA r :
             IF r.err # Nil
             THEN [heap |-> r.heap, vs |-> <<>>, err |-> r.err]
             ELSE outerProductRow(r.heap, v, us, i, j + 1,
                      [ws EXCEPT ![i * Len(us) + j + 1] = r.val]))

RECURSIVE outerProductFrom(_, _, _, _, _)
\* the outer loop from row i (0-based) on; the first error abandons ws
outerProductFrom(h, xs, us, i, ws) ==
    IF i >= Len(xs) THEN [heap |-> h, vs |-> ws, err |-> Nil]
    ELSE Bind(outerProductRow(h, xs[i + 1], us, i, 0, ws), LAMBDA row :
             IF row.err # Nil THEN row
             ELSE outerProductFrom(row.heap, xs, us, i + 1, row.vs))

\* outerProduct(xs, us, cat): ws := make([]types.Value, len(vs)*len(us))
outerProduct(h, xs, us) ==
    outerProductFrom(h, xs, us, 0, Zeros(Len(xs) * Len(us), Nil))

\* ------------------------------------------------------------------------
\* doTilde
\* ------------------------------------------------------------------------
\* strings.Index(s, "/"), 1-based; 0 when there is none
RECURSIVE IndexSlashFrom(_, _)
IndexSlashFrom(s, k) ==
    IF k > Len(s) THEN 0
    ELSE IF s[k] = "/" THEN k ELSE IndexSlashFrom(s, k + 1)
IndexSlash(s) == IndexSlashFrom(s, 1)

\* util.GetHome(uname): the home directory of the user, or an error
KnownUsers == {<<>>, <<"a">>}
GetHome(uname) ==
    IF uname = <<>> THEN [dir |-> <<"/", "r">>, err |-> Nil]
    ELSE IF uname \in KnownUsers
         THEN [dir |-> <<"/", "h", "/">> \o uname, err |-> Nil]
         ELSE [dir |-> <<>>, err |-> ErrNoSuchUser]

RECURSIVE PathClean(_)
\* path.Clean on a rooted path without dot elements: repeated separators
\* collapse and a trailing separator goes
PathClean(p) ==
    IF Len(p) <= 1 THEN p
    ELSE IF p[Len(p)] = "/" THEN PathClean(SubSeq(p, 1, Len(p) - 1))
    ELSE IF p[1] = "/" /\ p[2] = "/" THEN PathClean(Tail(p))
    ELSE <<p[1]>> \o PathClean(Tail(p))

\* path.Join(dir, rest): empty elements are ignored, the rest joined and cleaned
PathJoin(dir, rest) ==
    IF rest = <<>> THEN PathClean(dir) ELSE PathClean(dir \o <<"/">> \o rest)

doTildeDefaultBadPattern == ErrBadGlobPattern

\* the default case of the switch on v.Segments[0]
doTildeDefault == ErrCannotDetermineUsername

\* the types.String case of doTilde
doTildeString(h, s, i) ==
    Bind(GetHome(IF i = 0 THEN s ELSE SubSeq(s, 1, i - 1)), LAMBDA home :
        IF home.err # Nil
        THEN [heap |-> h, val |-> Nil, err |-> home.err]
        ELSE [heap |-> h, err |-> Nil,
              val |-> Str(PathJoin(home.dir,
                          IF i = 0 THEN <<>> ELSE SubSeq(s, i + 1, Len(s))))])

\* the glob.Literal case of doTilde, s the data of v.Segments[0]
doTildeLiteral(h, v, s, i) ==
    IF i = 0
    THEN [heap |-> h, val |-> Nil, err |-> ErrCannotDetermineUsername]
    ELSE Bind(GetHome(SubSeq(s, 1, i - 1)), LAMBDA home :
             IF home.err # Nil
             THEN [heap |-> h, val |-> Nil, err |-> home.err]
             ELSE \* v.Segments[0] = glob.Literal{dir + s[i:]}
                  [heap |-> [h EXCEPT ![v[2].Segments.arr][1] =
                                Literal(home.dir \o SubSeq(s, i, Len(s)))],
                   val |-> v, err |-> Nil])

\* doTilde(v): the value, or the error it throws
doTilde(h, v) ==
    IF Kind(v) = "string"
    THEN doTildeString(h, v[2], IndexSlash(v[2]))
    ELSE IF Kind(v) = "glob-pattern"
    THEN IF v[2].Segments.len = 0
         THEN [heap |-> h, val |-> Nil, err |-> ErrBadGlobPattern]
         ELSE Bind(h[v[2].Segments.arr][1], LAMBDA seg :
              IF seg[1] = "Literal"
              THEN doTildeLiteral(h, v, seg[2], IndexSlash(seg[2]))
              ELSE IF seg[1] = "Slash"
              THEN [heap |-> h,
                    val |-> <<"glob-pattern",
                              [v[2] EXCEPT !.DirOverride = GetHome(<<>>).dir]>>,
                    err |-> Nil]
              ELSE [heap |-> h, val |-> Nil, err |-> doTildeDefault])
    ELSE [heap |-> h, val |-> Nil, err |-> ErrTildeKind(Kind(v))]

RECURSIVE doTildeAll(_, _, _, _)
\* for i, v := range xs { newvs[i] = doTilde(v) }
doTildeAll(h, xs, k, newvs) ==
    IF k > Len(xs) THEN [heap |-> h, vs |-> newvs, err |-> Nil]
    ELSE Bind(doTilde(h, xs[k]), LAMBDA r :
         IF r.err # Nil THEN [heap |-> r.heap, vs |-> <<>>, err |-> r.err]
         ELSE doTildeAll(r.heap, xs, k + 1, Append(newvs, r.val)))

\* ------------------------------------------------------------------------
\* compoundOp.Invoke
\* ------------------------------------------------------------------------
\* doGlob(gp, interrupts): the paths the pattern matches on the file system
doGlob(gp, nmatch) == [k \in 1..nmatch |-> Str(<<"m">>)]

RECURSIVE doGlobAll(_, _, _)
doGlobAll(xs, nmatch, newvs) ==
    IF xs = <<>> THEN newvs
    ELSE IF Kind(Head(xs)) = "glob-pattern"
         THEN doGlobAll(Tail(xs), nmatch, newvs \o doGlob(Head(xs), nmatch))
         ELSE doGlobAll(Tail(xs), nmatch, Append(newvs, Head(xs)))

\* a value with its slices replaced by their contents
Deref(h, v) ==
    IF Kind(v) = "glob-pattern"
    THEN Glob(SliceElems(h, v[2].Segments), v[2].DirOverride, v[2].Flags,
              SliceElems(h, v[2].Buts))
    ELSE v

RECURSIVE ExecValues(_, _, _)
\* the values of a literal sub-operation: a wildcard primary is
\* GlobPattern{glob.Pattern{[]glob.Segment{seg}, ""}, flags, buts}
ExecValues(h, lits, out) ==
    IF lits = <<>> THEN [heap |-> h, vs |-> out, err |-> Nil]
    ELSE IF Kind(Head(lits)) = "glob-literal"
         THEN Bind(MakeSlice(h, <<Head(lits)[2].seg>>), LAMBDA s :
              Bind(MakeSlice(s.heap, Head(lits)[2].buts), LAMBDA b :
                  ExecValues(b.heap, Tail(lits),
                      Append(out, Glob(s.slice, <<>>, Head(lits)[2].flags,
                                       b.slice)))))
         ELSE ExecValues(h, Tail(lits), Append(out, Head(lits)))

\* ValuesOp.Exec of a sub-operation: its values, or its error
Exec(h, subop) ==
    IF subop.err # Nil THEN [heap |-> h, vs |-> <<>>, err |-> subop.err]
    ELSE ExecValues(h, subop.vals, <<>>)

RECURSIVE compoundFold(_, _, _, _)
\* for _, subop := range op.subops[1:] { vs, err = outerProduct(vs, us, cat) }
compoundFold(h, subops, k, xs) ==
    IF k > Len(subops) THEN [heap |-> h, vs |-> xs, err |-> Nil]
    ELSE Bind(Exec(h, subops[k]), LAMBDA us :
             IF us.err # Nil
             THEN [heap |-> us.heap, vs |-> <<>>, err |-> us.err]
             ELSE Bind(outerProduct(us.heap, xs, us.vs), LAMBDA r :
                      IF r.err # Nil THEN r
                      ELSE compoundFold(r.heap, subops, k + 1, r.vs)))

Returns(h, xs, err, pre) ==
    [heap |-> h, vs |-> xs, err |-> err, thrown |-> FALSE, pre |-> pre]
Throws(h, err, pre) ==
    [heap |-> h, vs |-> <<>>, err |-> err, thrown |-> TRUE, pre |-> pre]

\* the part of compoundOp.Invoke after the fold: tilde expansion, then glob
\* expansion of the values when one of them is a pattern
compoundFinish(op, t, pre) ==
    IF t.err # Nil THEN Throws(t.heap, t.err, pre)
    ELSE IF \E k \in 1..Len(t.vs) : Kind(t.vs[k]) = "glob-pattern"
    THEN Returns(t.heap, doGlobAll(t.vs, op.matches, <<>>), Nil, pre)
    ELSE Returns(t.heap, t.vs, Nil, pre)

\* compoundOp.Invoke: fold the sub-operations with outerProduct, tilde-expand,
\* then expand the glob patterns.  pre records the folded values as they
\* stand when the fold has ended.
compoundOpInvoke(h, op) ==
    Bind(Exec(h, op.subops[1]), LAMBDA first :
    IF first.err # Nil THEN Returns(first.heap, <<>>, first.err, <<>>)
    ELSE
    Bind(compoundFold(first.heap, op.subops, 2, first.vs), LAMBDA f :
    IF f.err # Nil THEN Returns(f.heap, <<>>, f.err, <<>>)
    ELSE
    Bind([k \in 1..Len(f.vs) |-> Deref(f.heap, f.vs[k])], LAMBDA pre :
    IF op.tilde
    THEN Bind(doTildeAll(f.heap, f.vs, 1, <<>>), LAMBDA t :
             compoundFinish(op, t, pre))
    ELSE compoundFinish(op, f, pre))))

\* ------------------------------------------------------------------------
\* mapPairsOp.Invoke
\* ------------------------------------------------------------------------
\* fm.errorpf(begin, end, "%d keys but %d values", ...): throws the error
ErrKeysValues(nk, nv) == <<"keys but values", nk, nv>>
errorpf(h, nk, nv) == Throws(h, ErrKeysValues(nk, nv), <<>>)

EmptyMap == << >>

AssocKeepsFirst(m, k, v) ==
    [x \in DOMAIN m \cup {k} |-> IF x \in DOMAIN m THEN m[x] ELSE v]

\* hashmap.Assoc(k, v): the map with k bound to v
Assoc(m, k, v) ==
    [x \in DOMAIN m \cup {k} |-> IF x = k THEN v ELSE m[x]]

RECURSIVE AssocAll(_, _, _, _)
\* for j, key := range keys { m = m.Assoc(key, values[j]) }
AssocAll(m, keys, values, j) ==
    IF j > Len(keys) THEN m
    ELSE AssocAll(Assoc(m, keys[j], values[j]), keys, values, j + 1)

MapValue(m) == <<"map", m>>

RECURSIVE mapPairsFrom(_, _, _, _)
mapPairsFrom(h, pairs, i, m) ==
    IF i > Len(pairs) THEN Returns(h, <<MapValue(m)>>, Nil, <<>>)
    ELSE LET keys == pairs[i].keys
             values == pairs[i].values
         IN  IF keys.err # Nil THEN Returns(h, <<>>, keys.err, <<>>)
             ELSE IF values.err # Nil THEN Returns(h, <<>>, values.err, <<>>)
             ELSE IF Len(keys.vals) # Len(values.vals)
             THEN errorpf(h, Len(keys.vals), Len(values.vals))
             ELSE mapPairsFrom(h, pairs, i + 1,
                      AssocAll(m, keys.vals, values.vals, 1))

\* mapPairsOp.Invoke: m := hashmap.Empty; pair by pair in source order
mapPairsOpInvoke(h, pairs) == mapPairsFrom(h, pairs, 1, EmptyMap)

\* ------------------------------------------------------------------------
\* exceptionCaptureOp.Invoke
\* ------------------------------------------------------------------------
Exception(cause) == <<"exception", cause>>

\* the body of ?( ... ): a form that evaluates one compound or map literal
OpExec(h, p) ==
    IF p[1] = "compound" THEN compoundOpInvoke(h, p[2])
    ELSE mapPairsOpInvoke(h, p[2])

\* fm.PEval(op): protected evaluation; a failure of the body, returned or
\* thrown, comes back as an *Exception
PEval(out) == IF out.err = Nil THEN Nil ELSE Exception(out.err)

exceptionCaptureOpInvokePropagates(h, body) ==
    Bind(OpExec(h, body), LAMBDA out :
    Bind(PEval(out), LAMBDA err :
        IF err = Nil THEN Returns(out.heap, <<OK>>, Nil, <<>>)
        ELSE Returns(out.heap, <<>>, err, <<>>)))

\* exceptionCaptureOp.Invoke: OK, or err.(*Exception) as the one value
exceptionCaptureOpInvoke(h, body) ==
    Bind(OpExec(h, body), LAMBDA out :
    Bind(PEval(out), LAMBDA err :
        IF err = Nil THEN Returns(out.heap, <<OK>>, Nil, <<>>)
        ELSE IF err[1] = "exception" THEN Returns(out.heap, <<err>>, Nil, <<>>)
        ELSE Throws(out.heap, <<"interface conversion">>, <<>>)))

\* ------------------------------------------------------------------------
\* The operations evaluated
\* ------------------------------------------------------------------------
MaxSubops == 3
MaxGlobSubops == 4
MaxMatches == 1
MaxPairs == 2

SeqsUpTo(S, n) == UNION {[1..k -> S] : k \in 0..n}
SeqsFrom1To(S, n) == UNION {[1..k -> S] : k \in 1..n}

Lit(vals) == [vals |-> vals, err |-> Nil]
FailOp == [vals |-> <<>>, err |-> ErrSubop]

StrA == Str(<<"a">>)
StrB == Str(<<"b">>)
GlobLit(seg, flags, buts) ==
    <<"glob-literal", [seg |-> seg, flags |-> flags, buts |-> buts]>>
G0 == GlobLit(Wild, {}, <<>>)
G1 == GlobLit(Wild, {}, << <<"x">> >>)
G2 == GlobLit(Wild, {"NoMatchOK"}, << <<"y">> >>)

StrOperands ==
    {Lit(<<>>), Lit(<<StrA>>), Lit(<<StrA, StrB>>), Lit(<<StrB, StrA, StrA>>),
     Lit(<<BoolTrue>>), FailOp}
TildeOperands ==
    {Lit(<<StrA>>), Lit(<<Str(<<"a", "/">>)>>), Lit(<<Str(<<"b", "/">>)>>),
     Lit(<<Str(<<"/">>)>>), Lit(<<G0>>), Lit(<<BoolTrue>>)}
GlobOperands == {Lit(<<G1>>), Lit(<<G2>>), Lit(<<G1, G2>>)}

Compound(tilde, subops, matches) ==
    <<"compound", [tilde |-> tilde, subops |-> subops, matches |-> matches]>>

StrProgs ==
    {Compound(FALSE, ss, 0) : ss \in SeqsFrom1To(StrOperands, MaxSubops)}
TildeProgs ==
    {Compound(TRUE, ss, n) :
        ss \in SeqsFrom1To(TildeOperands, MaxSubops), n \in 0..MaxMatches}
GlobProgs ==
    {Compound(FALSE, ss, n) :
        ss \in SeqsFrom1To(GlobOperands, MaxGlobSubops), n \in 0..MaxMatches}

K1 == Str(<<"k">>)
K2 == Str(<<"l">>)
KeySeqs == {<<>>, <<K1>>, <<K1, K1>>, <<K1, K2>>, <<K2, K1>>}
\* the numbers of values a pair with nk keys is given
ValueCounts(nk) == {n \in {nk - 1, nk, nk + 1} : n >= 0}
\* the values of pair i are distinct from every other value of the literal
PairValues(i, n) == [j \in 1..n |-> Val(10 * i + j)]
MapPair(i, c) ==
    IF c[1] = "keys fail" THEN [keys |-> FailOp, values |-> Lit(<<>>)]
    ELSE IF c[1] = "values fail"
         THEN [keys |-> Lit(<<K1>>), values |-> FailOp]
         ELSE [keys |-> Lit(c[2]), values |-> Lit(PairValues(i, c[3]))]
PairChoices ==
    UNION {{<<"pair", ks, n>> : n \in ValueCounts(Len(ks))} : ks \in KeySeqs}
        \cup {<<"keys fail", <<>>, 0>>, <<"values fail", <<>>, 0>>}
MapProgs ==
    {<<"map", [i \in 1..Len(cs) |-> MapPair(i, cs[i])]>> :
        cs \in SeqsUpTo(PairChoices, MaxPairs)}

ExcProgs == {<<"exc", p>> : p \in MapProgs \cup TildeProgs}

Progs == StrProgs \cup TildeProgs \cup GlobProgs \cup MapProgs \cup ExcProgs

NoRes == [vs |-> <<>>, err |-> <<"none">>, thrown |-> FALSE, pre |-> <<>>]
Pending == res.err = NoRes.err
Finished(kind) == prog[1] = kind /\ ~Pending

Result(r) == [vs |-> r.vs, err |-> r.err, thrown |-> r.thrown, pre |-> r.pre]

InvokeCompound ==
    /\ prog[1] = "compound" /\ Pending
    /\ \E r \in {compoundOpInvoke(heap, prog[2])} :
        /\ heap' = r.heap
        /\ res' = Result(r)
    /\ UNCHANGED <<prog, capVars, lamVars>>

InvokeMapPairs ==
    /\ prog[1] = "map" /\ Pending
    /\ \E r \in {mapPairsOpInvoke(heap, prog[2])} :
        /\ heap' = r.heap
        /\ res' = Result(r)
    /\ UNCHANGED <<prog, capVars, lamVars>>

InvokeExceptionCapture ==
    /\ prog[1] = "exc" /\ Pending
    /\ \E r \in {exceptionCaptureOpInvoke(heap, prog[2])} :
        /\ heap' = r.heap
        /\ res' = Result(r)
    /\ UNCHANGED <<prog, capVars, lamVars>>

\* ------------------------------------------------------------------------
\* lambdaOp.Invoke and the closures it creates
\* ------------------------------------------------------------------------
MaxOpts == 2

VarNames == {"x"}
VarValues == {StrA, StrB}
\* an option-default operation: a variable reference or a string literal
DefaultOps == {<<"variable", "x">>, <<"literal", StrA>>}
Lambdas ==
    {[optNames |-> [i \in 1..Len(ops) |-> i], optDefaultOps |-> ops] :
        ops \in SeqsFrom1To(DefaultOps, MaxOpts)}

\* fm.ExecAndUnwrap("option default value", op).One().Any()
ExecAndUnwrapOne(op, cs) == IF op[1] = "variable" THEN cs[op[2]] ELSE op[2]

lambdaOpInvokeReusesFirstDefault(op, cs) ==
    [OptNames |-> op.optNames,
     OptDefaults |-> [i \in 1..Len(op.optDefaultOps) |->
                         ExecAndUnwrapOne(op.optDefaultOps[1], cs)]]

\* lambdaOp.Invoke: &Closure{..., op.optNames, optDefaults, ...} with
\* optDefaults[i] the value of optDefaultOps[i] in the invoking frame
lambdaOpInvoke(op, cs) ==
    [OptNames |-> op.optNames,
     OptDefaults |-> [i \in 1..Len(op.optDefaultOps) |->
                         ExecAndUnwrapOne(op.optDefaultOps[i], cs)]]

\* the value a caller passes for an option
Supplied(i) == Val(i)

\* a call of the Closure built at line 516: it holds the default values, not
\* the operations, so an option the caller omits takes the stored value
ClosureCall(c, given) ==
    [i \in 1..Len(c.OptNames) |->
        IF i \in given THEN Supplied(i) ELSE c.OptDefaults[i]]

NoLambda == [optNames |-> <<>>, optDefaultOps |-> <<>>]
NoClosure == [made |-> FALSE, c |-> [OptNames |-> <<>>, OptDefaults |-> <<>>],
              definedWith |-> [n \in VarNames |-> StrA]]

\* a variable the default expressions read is assigned
SetVariable ==
    /\ \E n \in VarNames, v \in VarValues :
        /\ cells[n] # v
        /\ cells' = [cells EXCEPT ![n] = v]
    /\ UNCHANGED <<lam, closures, calls, capVars, evalVars>>

\* the lambda primary is evaluated: a new closure value
InvokeLambda ==
    /\ closures' = [made |-> TRUE, c |-> lambdaOpInvoke(lam, cells),
                    definedWith |-> cells]
    /\ closures' # closures
    /\ calls' = <<>>
    /\ UNCHANGED <<lam, cells, capVars, evalVars>>

\* the closure is called; calls keeps the last two calls of it
CallClosure ==
    /\ closures.made
    /\ \E given \in SUBSET (1..Len(closures.c.OptNames)) :
        LET call == [given |-> given, cellsAtCall |-> cells,
                     seen |-> ClosureCall(closures.c, given)]
        IN  calls' = IF Len(calls) = 2 THEN <<calls[2], call>>
                     ELSE Append(calls, call)
    /\ UNCHANGED <<lam, cells, closures, capVars, evalVars>>

\* ------------------------------------------------------------------------
\* Specifications of output capture
\* ------------------------------------------------------------------------
\* the state when pcaptureOutput is entered; nothing else is running
InitCapture ==
    /\ pc = "start"
    /\ bodySt = "idle"
    /\ bodyErr = "nil"
    /\ ch = <<>>
    /\ chClosed = FALSE
    /\ pipe = <<>>
    /\ pipeWClosed = FALSE
    /\ pipeRClosed = FALSE
    /\ vs = <<>>
    /\ mutex = "none"
    /\ vpc = "idle"
    /\ vcur = Val(0)
    /\ bpc = "idle"
    /\ line = <<>>
    /\ rdErr = FALSE
    /\ chCollected = FALSE
    /\ bytesCollected = FALSE
    /\ emitted = <<>>
    /\ written = <<>>
    /\ ret = NoRet
    /\ prog = <<"none">>
    /\ heap = <<>>
    /\ res = NoRes
    /\ lam = NoLambda
    /\ cells = [n \in VarNames |-> StrA]
    /\ closures = NoClosure
    /\ calls = <<>>

Drains ==
    \/ ValueRecv
    \/ ValueEnd
    \/ ValueLock
    \/ ValueAppend
    \/ BytesRead
    \/ BytesLock
    \/ BytesAppend
    \/ BytesClose

Joins ==
    \/ ClosePorts
    \/ WaitBytesCollected
    \/ WaitChCollected

CapNext ==
    \/ CaptureStart
    \/ BodySend(MaxVals)
    \/ BodyWrite(MaxBytes)
    \/ PEvalReturn(BodyErrors)
    \/ ClosePorts
    \/ WaitBytesCollected
    \/ WaitChCollected
    \/ ValueRecv
    \/ ValueEnd
    \/ ValueLock
    \/ ValueAppend
    \/ BytesRead
    \/ BytesLock
    \/ BytesAppend
    \/ BytesClose

SpecCapture == InitCapture /\ [][CapNext]_vars

LiveNext ==
    \/ CaptureStart
    \/ BodySend(MaxValsLive)
    \/ BodyWrite(MaxBytesLive)
    \/ PEvalReturn({"e1"})
    \/ ClosePorts
    \/ WaitBytesCollected
    \/ WaitChCollected
    \/ ValueRecv
    \/ ValueEnd
    \/ ValueLock
    \/ ValueAppend
    \/ BytesRead
    \/ BytesLock
    \/ BytesAppend
    \/ BytesClose

\* The Go scheduler runs every runnable goroutine: the two drains and the
\* capturing goroutine keep taking steps while they can.  Nothing is assumed
\* of the body: it may stop sending, writing or returning at any point.
SpecLive ==
    /\ InitCapture
    /\ [][LiveNext]_vars
    /\ WF_vars(Drains)
    /\ WF_vars(Joins)

\* ------------------------------------------------------------------------
\* Properties of output capture
\* ------------------------------------------------------------------------
ValuesOf(buf) == SelectSeq(buf, LAMBDA e : e[1] = "val")
LinesOf(buf) == SelectSeq(buf, LAMBDA e : e[1] = "string")

RECURSIVE SplitLines(_, _, _)
\* the newline-terminated lines of a byte stream, newline stripped, in order
SplitLines(bs, cur, acc) ==
    IF bs = <<>> THEN acc
    ELSE IF Head(bs) = NL
         THEN SplitLines(Tail(bs), <<>>, Append(acc, Str(cur)))
         ELSE SplitLines(Tail(bs), Append(cur, Head(bs)), acc)

RECURSIVE Fragment(_)
\* what follows the last newline of a byte stream
Fragment(bs) ==
    IF bs = <<>> THEN <<>>
    ELSE IF bs[Len(bs)] = NL THEN <<>>
         ELSE Append(Fragment(SubSeq(bs, 1, Len(bs) - 1)), bs[Len(bs)])

TerminatedLines(bs) == SplitLines(bs, <<>>, <<>>)

IsPrefix(s, t) == Len(s) <= Len(t) /\ SubSeq(t, 1, Len(s)) = s

Returned == pc = "done" /\ ret.err # "failed to create pipe"

\* C1: a body that sent n typed values and wrote m newline-terminated lines
\* makes the capture return exactly n+m elements, the typed values in the
\* order sent and the lines in the order written, whatever the interleaving.
C1_CountAndOrder ==
    (Returned /\ Fragment(written) = <<>>) =>
        /\ Len(ret.vs) = Len(emitted) + Len(TerminatedLines(written))
        /\ ValuesOf(ret.vs) = emitted
        /\ LinesOf(ret.vs) = TerminatedLines(written)

\* C1 witness: three values and two lines captured, a line ahead of a value
C1_Witness ==
    /\ Returned
    /\ Len(emitted) = 3
    /\ Len(TerminatedLines(written)) = 2
    /\ Fragment(written) = <<>>
    /\ Len(ret.vs) = 5
    /\ ret.vs[1][1] = "string"
    /\ ret.vs[5][1] = "string"

\* C2: when the body failed, the capture has returned only with the body
\* finished, the ports closed and both drains at end-of-stream, and returns
\* the body's own error together with every value and line emitted.
C2_ErrorWithPartialOutput ==
    (pc = "done" /\ bodySt = "failed") =>
        /\ chClosed /\ pipeWClosed
        /\ chCollected /\ bytesCollected
        /\ vpc = "done" /\ bpc = "done"
        /\ ch = <<>> /\ pipe = <<>>
        /\ ret.err = bodyErr /\ ret.err \in BodyErrors
        /\ ValuesOf(ret.vs) = emitted
        /\ IsPrefix(TerminatedLines(written), LinesOf(ret.vs))
        /\ ret.vs = vs

\* C2 witness: a body that failed after sending a value and writing a line
C2_Witness ==
    /\ pc = "done" /\ bodySt = "failed"
    /\ ret.err = "e2"
    /\ Len(emitted) >= 1
    /\ Len(TerminatedLines(written)) >= 1
    /\ Len(ret.vs) >= 2

\* C7 as stated: only newline-terminated lines become values; a final
\* unterminated fragment adds no element.
C7_FragmentDiscarded ==
    Returned => LinesOf(ret.vs) = TerminatedLines(written)

\* C7 amended: every newline-terminated line yields one text value with the
\* newline stripped, and a final non-empty unterminated fragment yields one
\* more text value, the fragment itself, after them.
C7_FragmentKept ==
    Returned =>
        LinesOf(ret.vs) =
            TerminatedLines(written) \o
                (IF Fragment(written) # <<>>
                 THEN <<Str(Fragment(written))>> ELSE <<>>)

\* C7 witness: a terminated line followed by an unterminated fragment
C7_Witness ==
    /\ Returned
    /\ written = <<"x", NL, "x">>
    /\ LinesOf(ret.vs) = <<Str(<<"x">>), Str(<<"x">>)>>

\* C10: once the body has ended the capture returns, and a body blocked on a
\* full value channel gets room again.
C10_CaptureReturns ==
    /\ (bodySt \in {"ok", "failed"}) ~> (pc = "done")
    /\ (bodySt = "running" /\ Len(ch) = outputCaptureBufferSize)
           ~> (Len(ch) < outputCaptureBufferSize)

\* C10 witness: the capture returned all of more values than the channel holds
C10_Witness ==
    /\ pc = "done"
    /\ Len(emitted) > outputCaptureBufferSize
    /\ ValuesOf(ret.vs) = emitted

\* ------------------------------------------------------------------------
\* Specifications of evaluation and of closures
\* ------------------------------------------------------------------------
EvalNext ==
    \/ InvokeCompound
    \/ InvokeMapPairs
    \/ InvokeExceptionCapture

\* one operation, not yet invoked, on an empty heap
InitEval ==
    /\ prog \in Progs
    /\ heap = <<>>
    /\ res = NoRes
    /\ pc = "start"
    /\ bodySt = "idle"
    /\ bodyErr = "nil"
    /\ ch = <<>>
    /\ chClosed = FALSE
    /\ pipe = <<>>
    /\ pipeWClosed = FALSE
    /\ pipeRClosed = FALSE
    /\ vs = <<>>
    /\ mutex = "none"
    /\ vpc = "idle"
    /\ vcur = Val(0)
    /\ bpc = "idle"
    /\ line = <<>>
    /\ rdErr = FALSE
    /\ chCollected = FALSE
    /\ bytesCollected = FALSE
    /\ emitted = <<>>
    /\ written = <<>>
    /\ ret = NoRet
    /\ lam = NoLambda
    /\ cells = [n \in VarNames |-> StrA]
    /\ closures = NoClosure
    /\ calls = <<>>

SpecEval == InitEval /\ [][EvalNext]_vars

LamNext ==
    \/ SetVariable
    \/ InvokeLambda
    \/ CallClosure

\* a lambda primary not yet evaluated, and the variables its defaults read
InitLambda ==
    /\ lam \in Lambdas
    /\ cells \in [VarNames -> VarValues]
    /\ closures = NoClosure
    /\ calls = <<>>
    /\ pc = "start"
    /\ bodySt = "idle"
    /\ bodyErr = "nil"
    /\ ch = <<>>
    /\ chClosed = FALSE
    /\ pipe = <<>>
    /\ pipeWClosed = FALSE
    /\ pipeRClosed = FALSE
    /\ vs = <<>>
    /\ mutex = "none"
    /\ vpc = "idle"
    /\ vcur = Val(0)
    /\ bpc = "idle"
    /\ line = <<>>
    /\ rdErr = FALSE
    /\ chCollected = FALSE
    /\ bytesCollected = FALSE
    /\ emitted = <<>>
    /\ written = <<>>
    /\ ret = NoRet
    /\ prog = <<"none">>
    /\ heap = <<>>
    /\ res = NoRes

SpecLambda == InitLambda /\ [][LamNext]_vars

\* ------------------------------------------------------------------------
\* Properties of evaluation
\* ------------------------------------------------------------------------
NSub == Len(prog[2].subops)
\* the values sub-operation k yields
Sub(k) == prog[2].subops[k].vals
NoSubopFails == \A k \in 1..NSub : prog[2].subops[k].err = Nil
KindsIn(d, kinds) ==
    \A k \in 1..d : \A j \in 1..Len(Sub(k)) : Kind(Sub(k)[j]) \in kinds

RECURSIVE Sizes(_)
\* |S1| * ... * |Sd|
Sizes(d) == IF d = 0 THEN 1 ELSE Sizes(d - 1) * Len(Sub(d))

\* the operand of sub-operation d that row-major index r (0-based) selects
\* among S1 x ... x Sd, and the index that is left for S1 x ... x S(d-1)
Digit(d, r) == Sub(d)[(r % Len(Sub(d))) + 1]
Rest(d, r) == r \div Len(Sub(d))

RECURSIVE ConcatAt(_, _)
\* the concatenation S1[i1] .. Sd[id] at row-major index r
ConcatAt(d, r) ==
    IF d = 0 THEN <<>> ELSE ConcatAt(d - 1, Rest(d, r)) \o Digit(d, r)[2]

\* cat is applied to a pair it does not support: the values folded so far and
\* those of sub-operation k are all there, and one of them is not a string
CatFails ==
    \E k \in 2..NSub : Sizes(k) > 0 /\ ~KindsIn(k, {"string"})

StringCompound ==
    /\ Finished("compound")
    /\ ~prog[2].tilde
    /\ NoSubopFails
    /\ KindsIn(NSub, {"string", "bool"})

\* C4: compound evaluation of S1..Sn is the left-to-right fold of
\* outerProduct with cat: |S1|*...*|Sn| values, the one at row-major index
\* (i1,..,in) being S1[i1]..Sn[in] with the earliest sub-expression varying
\* slowest; empty when some Sk is empty; no values at all when cat fails on
\* a pair.
C4_RowMajorFold ==
    StringCompound =>
        IF CatFails
        THEN /\ res.vs = <<>>
             /\ res.err[1] = "unsupported concat"
        ELSE /\ res.err = Nil
             /\ Len(res.vs) = Sizes(NSub)
             /\ NSub = 1 => res.vs = Sub(1)
             /\ NSub > 1 =>
                    \A r \in 0..(Sizes(NSub) - 1) :
                        res.vs[r + 1] = Str(ConcatAt(NSub, r))

\* C4 witness: {a,b}{b,a,a}{a,b} gave twelve strings in row-major order
C4_Witness ==
    /\ StringCompound
    /\ NSub = 3
    /\ Len(res.vs) = 12
    /\ res.vs[2] = Str(<<"a", "b", "b">>)
    /\ res.vs[3] = Str(<<"a", "a", "a">>)
    /\ res.vs[7] = Str(<<"b", "b", "a">>)
    /\ res.vs[12] = Str(<<"b", "a", "b">>)

GlobCompound ==
    /\ Finished("compound")
    /\ ~prog[2].tilde
    /\ NoSubopFails
    /\ Sizes(NSub) > 0
    /\ KindsIn(NSub, {"glob-literal"})

RECURSIVE SegmentsAt(_, _)
SegmentsAt(d, r) ==
    IF d = 0 THEN <<>>
    ELSE Append(SegmentsAt(d - 1, Rest(d, r)), Digit(d, r)[2].seg)

RECURSIVE FlagsAt(_, _)
FlagsAt(d, r) ==
    IF d = 0 THEN {}
    ELSE FlagsAt(d - 1, Rest(d, r)) \cup Digit(d, r)[2].flags

RECURSIVE ButsAt(_, _)
ButsAt(d, r) ==
    IF d = 0 THEN <<>>
    ELSE ButsAt(d - 1, Rest(d, r)) \o Digit(d, r)[2].buts

\* C9: concatenating onto a glob pattern never changes a pattern visible
\* elsewhere: when the fold has ended, every result still has the segments,
\* flags and excludes of its own operands, in order, whatever was appended
\* to the same left pattern after it was built.
C9_ResultsKeepTheirOperands ==
    GlobCompound =>
        /\ res.err = Nil
        /\ Len(res.pre) = Sizes(NSub)
        /\ \A r \in 0..(Sizes(NSub) - 1) :
               res.pre[r + 1] =
                   Glob(SegmentsAt(NSub, r), <<>>, FlagsAt(NSub, r),
                        ButsAt(NSub, r))

\* the value the fold leaves for tilde expansion is a pattern whose first
\* segment is of the given kinds
TildeOnPattern(segKinds) ==
    /\ Finished("compound")
    /\ prog[2].tilde
    /\ Len(res.pre) = 1
    /\ Kind(res.pre[1]) = "glob-pattern"
    /\ Len(res.pre[1][2].Segments) > 0
    /\ res.pre[1][2].Segments[1][1] \in segKinds

NoSeparator(seg) == IndexSlash(seg[2]) = 0

\* C8 as stated: tilde expansion of a pattern whose first segment is neither
\* a literal nor a path separator fails with the "bad glob pattern" error.
C8_WildcardIsBadPattern ==
    TildeOnPattern({"Wild"}) =>
        res.thrown /\ res.err = ErrBadGlobPattern

\* C8 amended: tilde expansion of a pattern whose first segment is neither a
\* literal nor a path separator fails with the "cannot determine user name"
\* error, the same error as for a literal first segment without a separator.
C8_WildcardIsNoUsername ==
    /\ TildeOnPattern({"Wild"}) =>
           res.thrown /\ res.vs = <<>> /\ res.err = ErrCannotDetermineUsername
    /\ (TildeOnPattern({"Literal"})
            /\ NoSeparator(res.pre[1][2].Segments[1])) =>
           res.thrown /\ res.vs = <<>> /\ res.err = ErrCannotDetermineUsername

\* C8 witness: ~ before a pattern that starts with a wildcard has failed
C8_Witness ==
    /\ TildeOnPattern({"Wild"})
    /\ Len(res.pre[1][2].Segments) = 2
    /\ res.thrown
    /\ res.err = ErrCannotDetermineUsername

Pairs == prog[2]
Mismatch(i) ==
    /\ Pairs[i].keys.err = Nil
    /\ Pairs[i].values.err = Nil
    /\ Len(Pairs[i].keys.vals) # Len(Pairs[i].values.vals)
PairOK(i) ==
    /\ Pairs[i].keys.err = Nil
    /\ Pairs[i].values.err = Nil
    /\ Len(Pairs[i].keys.vals) = Len(Pairs[i].values.vals)

RECURSIVE Insertions(_)
\* the <<key, value>> insertions of pairs 1..n, in source order
Insertions(n) ==
    IF n = 0 THEN <<>>
    ELSE Insertions(n - 1) \o
             [j \in 1..Len(Pairs[n].keys.vals) |->
                 <<Pairs[n].keys.vals[j], Pairs[n].values.vals[j]>>]

KeysOf(ins) == {ins[j][1] : j \in 1..Len(ins)}
\* the value of the last insertion with key k
LastValue(ins, k) ==
    ins[CHOOSE j \in 1..Len(ins) :
            /\ ins[j][1] = k
            /\ \A j2 \in (j + 1)..Len(ins) : ins[j2][1] # k][2]

\* C5: a map literal takes its pairs in source order; the first pair whose
\* key and value sequences differ in length makes it fail with an error
\* reporting the two counts and no map; with equal lengths everywhere the
\* map holds, for each key, the value of the last insertion with that key.
C5_ZipAndOverwrite ==
    Finished("map") =>
        /\ \A i \in 1..Len(Pairs) :
               (Mismatch(i) /\ \A i2 \in 1..(i - 1) : PairOK(i2)) =>
                   /\ res.thrown
                   /\ res.vs = <<>>
                   /\ res.err = ErrKeysValues(Len(Pairs[i].keys.vals),
                                              Len(Pairs[i].values.vals))
        /\ (\A i \in 1..Len(Pairs) : PairOK(i)) =>
               /\ res.err = Nil
               /\ Len(res.vs) = 1
               /\ res.vs[1][1] = "map"
               /\ DOMAIN res.vs[1][2] = KeysOf(Insertions(Len(Pairs)))
               /\ \A k \in KeysOf(Insertions(Len(Pairs))) :
                      res.vs[1][2][k] = LastValue(Insertions(Len(Pairs)), k)

\* C5 witness: [&k=.. &l=.. &k=..] with the second pair re-binding k
C5_Witness ==
    /\ Finished("map")
    /\ Len(Pairs) = 2
    /\ Pairs[1].keys = Lit(<<K1, K2>>)
    /\ Pairs[2].keys = Lit(<<K1>>)
    /\ res.err = Nil
    /\ res.vs = <<MapValue([k \in {K1, K2} |->
                     IF k = K1 THEN Val(21) ELSE Val(12)])>>

\* the error the body of ?( ... ) ends with, Nil when it succeeds
BodyErr == OpExec(<<>>, prog[2]).err

\* C3: exception capture returns exactly one value and a nil error: OK when
\* the body succeeds, the exception wrapping the failure when it fails; the
\* failure never propagates.
C3_OneValueNoFailure ==
    Finished("exc") =>
        /\ res.err = Nil
        /\ ~res.thrown
        /\ Len(res.vs) = 1
        /\ BodyErr = Nil => res.vs = <<OK>>
        /\ BodyErr # Nil => res.vs = <<Exception(BodyErr)>>

\* C3 witness: a body that threw, captured as one exception value
C3_Witness ==
    /\ Finished("exc")
    /\ prog[2][1] = "compound"
    /\ OpExec(<<>>, prog[2]).thrown
    /\ res.err = Nil
    /\ res.vs = <<Exception(ErrCannotDetermineUsername)>>

\* ------------------------------------------------------------------------
\* Properties of closures
\* ------------------------------------------------------------------------
\* C6 as stated: an option a call omits takes the value its default
\* operation has when the closure is called.
C6_DefaultsPerCall ==
    \A n \in 1..Len(calls) :
        \A i \in 1..Len(lam.optDefaultOps) :
            i \notin calls[n].given =>
                calls[n].seen[i] =
                    ExecAndUnwrapOne(lam.optDefaultOps[i],
                                     calls[n].cellsAtCall)

\* C6 amended: each option-default operation is evaluated once, when the
\* lambda primary is evaluated; an option a call omits takes the value the
\* default had then, whatever the variables hold when the closure is called,
\* and an option a call supplies takes the supplied value.
C6_DefaultsPerDefinition ==
    /\ closures.made =>
           \A i \in 1..Len(lam.optDefaultOps) :
               closures.c.OptDefaults[i] =
                   ExecAndUnwrapOne(lam.optDefaultOps[i], closures.definedWith)
    /\ \A n \in 1..Len(calls) :
           \A i \in 1..Len(lam.optDefaultOps) :
               calls[n].seen[i] =
                   IF i \in calls[n].given THEN Supplied(i)
                   ELSE ExecAndUnwrapOne(lam.optDefaultOps[i],
                                         closures.definedWith)

\* C6 witness: two calls of one closure both omit an option whose default
\* reads x, x was changed in between, and both see the same value
C6_Witness ==
    /\ Len(calls) = 2
    /\ Len(lam.optDefaultOps) = 2
    /\ lam.optDefaultOps[2] = <<"variable", "x">>
    /\ 2 \notin calls[1].given
    /\ 2 \notin calls[2].given
    /\ calls[1].cellsAtCall["x"] # calls[2].cellsAtCall["x"]
    /\ calls[1].seen[2] = calls[2].seen[2]
    /\ calls[1].seen[2] = closures.definedWith["x"]

====
